---- MODULE Spec2Model ----
(***************************************************************************)
(* A model of the Vue controller of the data lineage visualizer            *)
(* (src/unnamed/part_000): the graph data store, the connectivity index,   *)
(* the layout pre-positioning, the position cache and the render /         *)
(* simulation lifecycle (deferred builds, engine instance, auto-disable    *)
(* timers).  The rendering engine (vis.Network), the browser's animation   *)
(* frames and timers, and the user are the environment.                    *)
(***************************************************************************)
EXTENDS Integers, Sequences, FiniteSets, TLC

VARIABLES
    selectedState,         \* data().selectedState
    selectedLayout,        \* data().selectedLayout
    searchTerm,            \* data().searchTerm, a sequence of characters
    viewMode,              \* data().viewMode: "graph" | "table"
    network,               \* data().network: NoNetwork or the live engine instance
    isPhysicsEnabled,      \* data().isPhysicsEnabled
    isLoading,             \* data().isLoading
    stabilizationTimeout,  \* data().stabilizationTimeout: 0 (null) or a timer id
    connectionMap,         \* data().connectionMap: node id -> sequence of neighbour ids
    nodeIdMap,             \* data().nodeIdMap: node id -> node record
    layoutCache,           \* data().layoutCache: cacheKey -> (node id -> position)
    timers,                \* the browser's pending setTimeout callbacks of the auto-disable kind
    rafQueue,              \* drawGraph callbacks waiting for the next animation frame
    timeoutQueue,          \* drawGraph callbacks waiting for their 10 ms timeout
    engineLive,            \* number of engine instances constructed and not destroyed
    moves,                 \* number of position changes the engine has made so far
    selections,            \* number of snapshot and layout selections the user has made so far
    input,                 \* the arguments of a function checked on its own
    output,                \* its result
    js,                    \* the state of the plain-JS controller (src/static/js/app.js)
    debug                  \* the debug panel: data().showDebug, data().logInterval and the browser's intervals

vars == <<selectedState, selectedLayout, searchTerm, viewMode, network,
          isPhysicsEnabled, isLoading, stabilizationTimeout, connectionMap,
          nodeIdMap, layoutCache, timers, rafQueue, timeoutQueue, engineLive, moves,
          selections, input, output, js, debug>>

-----------------------------------------------------------------------------
(* Bounds of the model *)

\* Most drawGraph callbacks that may be outstanding (both stages together).
MaxPending == 2
\* Most auto-disable timers that may be pending in the browser.
MaxTimers == 2
\* Most position changes (physics steps, drags) the engine makes in a run.
MaxMoves == 2
\* Most snapshot and layout selections the user makes in a run.
MaxSelections == 3
\* Most toggleDebugPanel calls in a run.
MaxToggles == 8
\* Most /logs requests in a run.
MaxFetches == 6

-----------------------------------------------------------------------------
(* Text: strings are sequences of one-character strings *)

\* String.prototype.toLowerCase on the characters the data uses.
LowerChar(c) ==
    CASE c = "C" -> "c" [] c = "D" -> "d" [] c = "F" -> "f" [] c = "H" -> "h"
      [] c = "V" -> "v" [] c = "W" -> "w" [] c = "Z" -> "z" [] OTHER -> c

toLowerCase(s) == [i \in 1..Len(s) |-> LowerChar(s[i])]

IsSpace(c) == c = " "

RECURSIVE trimStart(_)
trimStart(s) == IF s # <<>> /\ IsSpace(Head(s)) THEN trimStart(Tail(s)) ELSE s

RECURSIVE trimEnd(_)
trimEnd(s) ==
    IF s # <<>> /\ IsSpace(s[Len(s)]) THEN trimEnd(SubSeq(s, 1, Len(s) - 1)) ELSE s

\* String.prototype.trim
trim(s) == trimEnd(trimStart(s))

\* String.prototype.includes: q occurs in s as a substring
includes(s, q) ==
    \E i \in 1..(Len(s) + 1) :
        /\ i + Len(q) - 1 <= Len(s)
        /\ SubSeq(s, i, i + Len(q) - 1) = q

-----------------------------------------------------------------------------
(* The graph data store *)

States == {"past", "current", "future"}
Layouts == {"clusteredForce", "hierarchicalLR", "hierarchicalUD"}
ViewModes == {"graph", "table"}

Node(id, text, label, group) ==
    [id |-> id, text |-> text, label |-> label, group |-> group]
Edge(id, from, to) == [id |-> id, from |-> from, to |-> to]

\* window.graphData as delivered at page load.  "past" is Scenario A/B of the
\* specification (F2 has no edge); "current" has an edge to an unknown node;
\* "future" has no dataset.
graphData ==
    [past |->
        [nodes |-> << Node("F1", <<"F", "1">>, <<"C", "r", "m">>, "feed"),
                      Node("W1", <<"W", "1">>, <<"D", "w">>, "warehouse"),
                      Node("F2", <<"F", "2">>, <<"H", "r">>, "feed") >>,
         edges |-> << Edge("e1", "F1", "W1") >>],
     current |->
        [nodes |-> << Node("W1", <<"W", "1">>, <<"D", "w">>, "warehouse"),
                      Node("V1", <<"V", "1">>, <<"V", "z">>, "virtualisation") >>,
         edges |-> << Edge("e2", "W1", "V1"), Edge("e3", "V1", "X9") >>]]

HasData(state) == state \in DOMAIN graphData

\* computed currentNodes: graphData[selectedState]?.nodes || []
currentNodes(state) == IF HasData(state) THEN graphData[state].nodes ELSE <<>>

Range(f) == {f[i] : i \in DOMAIN f}

-----------------------------------------------------------------------------
(* The connectivity index *)

\* One step of the edges.forEach of calculateConnectivity.
\* An edge recorded at its source alone.
AddEdgeDirected(cm, edge) ==
    IF edge.from \in DOMAIN cm /\ edge.to \in DOMAIN cm
    THEN IF edge.to \in Range(cm[edge.from])
         THEN cm
         ELSE [cm EXCEPT ![edge.from] = Append(@, edge.to)]
    ELSE cm

AddEdge(cm, edge) ==
    IF edge.from \in DOMAIN cm /\ edge.to \in DOMAIN cm
    THEN LET c1 == IF edge.to \in Range(cm[edge.from])
                   THEN cm
                   ELSE [cm EXCEPT ![edge.from] = Append(@, edge.to)]
             c2 == IF edge.from \in Range(c1[edge.to])
                   THEN c1
                   ELSE [c1 EXCEPT ![edge.to] = Append(@, edge.from)]
         IN  c2
    ELSE cm

RECURSIVE FoldEdges(_, _)
FoldEdges(cm, edges) ==
    IF edges = <<>> THEN cm ELSE FoldEdges(AddEdge(cm, Head(edges)), Tail(edges))

\* calculateConnectivity on a node list and an edge list: the connectionMap.
ConnectionMapOf(nodes, edges) ==
    FoldEdges([id \in {n.id : n \in Range(nodes)} |-> <<>>], edges)

\* calculateConnectivity: the nodeIdMap (the last record wins for a repeated id).
NodeIdMapOf(nodes) ==
    [id \in {n.id : n \in Range(nodes)} |->
        LET last == CHOOSE i \in DOMAIN nodes :
                        /\ nodes[i].id = id
                        /\ \A j \in DOMAIN nodes : nodes[j].id = id => j <= i
        IN  nodes[last]]

-----------------------------------------------------------------------------
(* The layout engine: pre-positioning of the render copy of the nodes *)

Undefined == <<>>
Def(v) == <<v>>
NotFixed == [x |-> FALSE, y |-> FALSE]
\* A pin that pins nothing.
FixedXFree == [x |-> FALSE, y |-> FALSE]
FixedX == [x |-> TRUE, y |-> FALSE]
FixedXY == [x |-> TRUE, y |-> TRUE]

\* The render copy of a source node (JSON.parse(JSON.stringify(rawData))): the
\* source records carry no x, y or fixed.
RenderNode(n) ==
    [id |-> n.id, group |-> n.group, x |-> Undefined, y |-> Undefined,
     fixed |-> NotFixed]

Min(a, b) == IF a <= b THEN a ELSE b

\* A grid of one column.
CeilSqrtOne(k) == 1

\* Math.ceil(Math.sqrt(k))
CeilSqrt(k) == CHOOSE c \in 0..k : c * c >= k /\ \A d \in 0..(c - 1) : d * d < k

\* The nodes of a group, in list order (groups[node.group]).
Bucket(nodes, group) == SelectSeq(nodes, LAMBDA n : n.group = group)

\* The index of nodes[i] in the bucket of its group.
BucketIndex(nodes, i) ==
    Cardinality({j \in 1..(i - 1) : nodes[j].group = nodes[i].group})

groupPositions ==
    [feed |-> [x |-> 0, y |-> 0],
     warehouse |-> [x |-> 400, y |-> 0],
     datalake |-> [x |-> 400, y |-> 300],
     virtualisation |-> [x |-> 800, y |-> 150],
     logical_dw |-> [x |-> 1200, y |-> 150]]

RoughSpacing == 80

applyRoughPositioning(nodes) ==
    [i \in 1..Len(nodes) |->
        LET node == nodes[i]
            basePos == IF node.group \in DOMAIN groupPositions
                       THEN groupPositions[node.group]
                       ELSE [x |-> 0, y |-> 0]
            cols == CeilSqrt(Len(Bucket(nodes, node.group)))
            index == BucketIndex(nodes, i)
            row == index \div cols
            col == index % cols
        IN  [node EXCEPT !.x = Def(basePos.x + col * RoughSpacing),
                         !.y = Def(basePos.y + row * RoughSpacing)]]

xSpacing == 200
ySpacing == 100
FeedColumns == 8
Level1Columns == 3

\* levelWidths[0], levelWidths[1], levelWidths[2] of applyManualLTRLayout
\* A feed level that consumes no width.
LevelWidth0Zero(nodes) == 0
LevelWidth0(nodes) == Min(Len(Bucket(nodes, "feed")), FeedColumns) * xSpacing
LevelWidth1(nodes) ==
    Min(Len(Bucket(nodes, "warehouse")) + Len(Bucket(nodes, "datalake")),
        Level1Columns) * xSpacing
LevelWidth2(nodes) == IF Len(Bucket(nodes, "virtualisation")) > 0 THEN xSpacing ELSE 0

applyManualLTRLayout(nodes) ==
    [i \in 1..Len(nodes) |->
        LET node == nodes[i]
            index == BucketIndex(nodes, i)
            \* index in level1Nodes = warehouses followed by datalakes
            index1 == IF node.group = "datalake"
                      THEN Len(Bucket(nodes, "warehouse")) + index
                      ELSE index
            x1 == LevelWidth0(nodes)
            x2 == x1 + LevelWidth1(nodes)
            x3 == x2 + LevelWidth2(nodes)
        IN  CASE node.group = "feed" ->
                    [node EXCEPT !.x = Def((index % FeedColumns) * xSpacing),
                                 !.fixed = FixedX]
              [] node.group = "warehouse" ->
                    [node EXCEPT !.x = Def(x1 + (index1 % Level1Columns) * xSpacing),
                                 !.fixed = FixedX]
              [] node.group = "datalake" ->
                    [node EXCEPT !.x = Def(x1 + (index1 % Level1Columns) * xSpacing),
                                 !.y = Def((index1 \div Level1Columns) * ySpacing),
                                 !.fixed = FixedXY]
              [] node.group = "virtualisation" ->
                    [node EXCEPT !.x = Def(x2),
                                 !.y = Def((index * ySpacing * 3) \div 2),
                                 !.fixed = FixedXY]
              [] node.group = "logical_dw" ->
                    [node EXCEPT !.x = Def(x3), !.fixed = FixedX]
              [] OTHER -> node]

\* The physics part of getLayoutOptions: physics is on unless the layout is the
\* engine's own hierarchical arrangement; stabilization.enabled is false in both
\* basePhysics and stablePhysics.
getLayoutOptions(layout) ==
    CASE layout = "hierarchicalLR" ->
            [hierarchical |-> FALSE, physics |-> TRUE, solver |-> "barnesHut",
             stabilization |-> FALSE]
      [] layout = "hierarchicalUD" ->
            [hierarchical |-> TRUE, physics |-> FALSE, solver |-> "none",
             stabilization |-> FALSE]
      [] OTHER ->
            [hierarchical |-> FALSE, physics |-> TRUE, solver |-> "forceAtlas2Based",
             stabilization |-> FALSE]

-----------------------------------------------------------------------------
(* The controller's state as one record, so that a handler is a function    *)
(* from the state before it to the state after it                           *)

Cur ==
    [selectedState |-> selectedState, selectedLayout |-> selectedLayout,
     searchTerm |-> searchTerm, viewMode |-> viewMode, network |-> network,
     isPhysicsEnabled |-> isPhysicsEnabled, isLoading |-> isLoading,
     stabilizationTimeout |-> stabilizationTimeout,
     connectionMap |-> connectionMap, nodeIdMap |-> nodeIdMap,
     layoutCache |-> layoutCache, timers |-> timers, rafQueue |-> rafQueue,
     timeoutQueue |-> timeoutQueue, engineLive |-> engineLive, moves |-> moves,
     selections |-> selections]

\* The handler's result becomes the next state, within the bounds of the model.
Commit(s) ==
    /\ s.rafQueue + s.timeoutQueue <= MaxPending
    /\ Cardinality(s.timers) <= MaxTimers
    /\ s.moves <= MaxMoves
    /\ s.selections <= MaxSelections
    /\ selectedState' = s.selectedState
    /\ selectedLayout' = s.selectedLayout
    /\ searchTerm' = s.searchTerm
    /\ viewMode' = s.viewMode
    /\ network' = s.network
    /\ isPhysicsEnabled' = s.isPhysicsEnabled
    /\ isLoading' = s.isLoading
    /\ stabilizationTimeout' = s.stabilizationTimeout
    /\ connectionMap' = s.connectionMap
    /\ nodeIdMap' = s.nodeIdMap
    /\ layoutCache' = s.layoutCache
    /\ timers' = s.timers
    /\ rafQueue' = s.rafQueue
    /\ timeoutQueue' = s.timeoutQueue
    /\ engineLive' = s.engineLive
    /\ moves' = s.moves
    /\ selections' = s.selections
    /\ UNCHANGED <<input, output, js, debug>>

-----------------------------------------------------------------------------
(* The browser's timers *)

NoNetwork == [tag |-> "null"]
HasNetwork(s) == s.network.tag = "Network"

\* clearTimeout(id): a pending timer with that id is dropped, anything else is a no-op
clearTimeout(s, id) == [s EXCEPT !.timers = {t \in @ : t.id # id}]

\* The id setTimeout returns: one that names no pending timer and is not the
\* (possibly stale) id the controller still holds.
NewTimerId(s) ==
    CHOOSE i \in 1..(MaxTimers + 2) :
        /\ i \notin {t.id : t \in s.timers} \cup {s.stabilizationTimeout}
        /\ \A j \in 1..(i - 1) :
              j \in {t.id : t \in s.timers} \cup {s.stabilizationTimeout}

\* this.stabilizationTimeout = setTimeout(callback, delay), the callback being that
\* of the stabilization handler ("stabilized") or of togglePhysics ("toggle").
\* stale = FALSE: no build has constructed an instance since it was armed.
ArmTimer(s, kind, delay) ==
    LET id == NewTimerId(s)
    IN  [s EXCEPT !.timers = @ \cup {[id |-> id, kind |-> kind, stale |-> FALSE]},
                  !.stabilizationTimeout = id]

-----------------------------------------------------------------------------
(* drawGraph and the engine commands of the handlers *)

\* drawGraph: the loading flag, and a callback for the next animation frame
drawGraph(s) == [s EXCEPT !.isLoading = TRUE, !.rafQueue = @ + 1]

\* A teardown that drops the reference and leaves the instance running.
DestroyNetworkLeak(s) == IF HasNetwork(s) THEN [s EXCEPT !.network = NoNetwork] ELSE s

\* network.destroy(); network = null
DestroyNetwork(s) ==
    IF HasNetwork(s)
    THEN [s EXCEPT !.network = NoNetwork, !.engineLive = @ - 1]
    ELSE s

\* document.getElementById('network-graph'): the container is rendered in graph view
ContainerExists(s) == s.viewMode = "graph"

\* A reset that requests no rebuild.
resetNodeStylesNoRedraw(s) == s

resetNodeStyles(s) ==
    IF ~HasNetwork(s) \/ ~HasData(s.selectedState) THEN s ELSE drawGraph(s)

\* An unselectAll that keeps the selection.
unselectAllKeeping(s) == s

\* network.unselectAll()
unselectAll(s) == [s EXCEPT !.network.selection = {}]

\* network.selectNodes(ids) throws RangeError at an id that is no node of the
\* instance.
selectNodesThrows(s, ids) ==
    \E i \in DOMAIN ids : ids[i] \notin {n.id : n \in Range(s.network.nodes)}

\* network.selectNodes(ids): the selection is cleared and the ids are selected
\* in turn, up to the first that is no node of the instance.
selectNodes(s, ids) ==
    LET bad == {i \in DOMAIN ids : ids[i] \notin {n.id : n \in Range(s.network.nodes)}}
        taken == {i \in DOMAIN ids : \A j \in bad : i < j}
    IN  [s EXCEPT !.network.selection = {ids[i] : i \in taken}]

\* network.getConnectedNodes(id): the other ends of the instance's edges at id;
\* an edge with an end that is no node of the instance connects nothing.
getConnectedNodes(net, id) ==
    LET ids == {n.id : n \in Range(net.nodes)}
    IN  {e.to : e \in {d \in Range(net.edges) : d.from = id /\ d.to \in ids}}
        \cup {e.from : e \in {d \in Range(net.edges) : d.to = id /\ d.from \in ids}}

\* A highlight that flips the edges: an edge that is emphasised already is hidden.
applyHighlightFlipping(s, selectedIds) ==
    IF ~HasNetwork(s) \/ ~HasData(s.selectedState) THEN s
    ELSE IF selectedIds = <<>> THEN resetNodeStyles(s)
    ELSE
        LET nodesToHighlight ==
                Range(selectedIds) \cup
                UNION {getConnectedNodes(s.network, id) : id \in Range(selectedIds)}
        IN  [s EXCEPT !.network.edgeStyle =
                [i \in DOMAIN s.network.edges |->
                    IF /\ s.network.edges[i].from \in nodesToHighlight
                       /\ s.network.edges[i].to \in nodesToHighlight
                       /\ s.network.edgeStyle[i] # "emphasised"
                    THEN "emphasised" ELSE "hidden"]]

applyHighlight(s, selectedIds) ==
    IF ~HasNetwork(s) \/ ~HasData(s.selectedState) THEN s
    ELSE IF selectedIds = <<>> THEN resetNodeStyles(s)
    ELSE
        LET originalIds == {n.id : n \in Range(graphData[s.selectedState].nodes)}
            nodesToHighlight ==
                Range(selectedIds) \cup
                UNION {getConnectedNodes(s.network, id) : id \in Range(selectedIds)}
            nodeStyle ==
                [id \in DOMAIN s.network.nodeStyle |->
                    IF id \notin originalIds THEN s.network.nodeStyle[id]
                    ELSE IF id \in nodesToHighlight THEN "restored" ELSE "dimmed"]
            edgeStyle ==
                [i \in DOMAIN s.network.edges |->
                    IF /\ s.network.edges[i].from \in nodesToHighlight
                       /\ s.network.edges[i].to \in nodesToHighlight
                    THEN "emphasised" ELSE "hidden"]
        IN  [s EXCEPT !.network.nodeStyle = nodeStyle,
                      !.network.edgeStyle = edgeStyle]

\* A search over the node lists of all snapshots.
matchedNodesOfAllSnapshots(state, lowerCaseQuery) ==
    LET allNodes == graphData.past.nodes \o graphData.current.nodes
        hits == SelectSeq(allNodes,
                          LAMBDA n : \/ includes(toLowerCase(n.label), lowerCaseQuery)
                                     \/ includes(toLowerCase(n.text), lowerCaseQuery))
    IN  [i \in 1..Len(hits) |-> hits[i].id]

\* The node ids a query matches in the node list of a snapshot, in data order.
matchedNodes(state, lowerCaseQuery) ==
    LET hits == SelectSeq(graphData[state].nodes,
                          LAMBDA n : \/ includes(toLowerCase(n.label), lowerCaseQuery)
                                     \/ includes(toLowerCase(n.text), lowerCaseQuery))
    IN  [i \in 1..Len(hits) |-> hits[i].id]

searchNodes(s, query) ==
    IF ~HasNetwork(s) THEN s
    ELSE
        LET lowerCaseQuery == trim(toLowerCase(query))
        IN  IF lowerCaseQuery = <<>> THEN unselectAll(resetNodeStyles(s))
            \* graphData[selectedState].nodes of no dataset throws: the handler ends
            ELSE IF ~HasData(s.selectedState) THEN s
            ELSE
                LET nodesToSelect == matchedNodes(s.selectedState, lowerCaseQuery)
                IN  IF nodesToSelect = <<>> THEN resetNodeStyles(unselectAll(s))
                    \* the exception of selectNodes ends the handler
                    ELSE IF selectNodesThrows(s, nodesToSelect)
                    THEN selectNodes(s, nodesToSelect)
                    ELSE LET s1 == applyHighlight(selectNodes(s, nodesToSelect),
                                                  nodesToSelect)
                         IN  [s1 EXCEPT !.network.focus = nodesToSelect[1]]

\* searchNodes ends with an exception: no dataset to read the node list of, or
\* a match that is no node of the instance.
searchNodesThrows(s, query) ==
    /\ HasNetwork(s)
    /\ trim(toLowerCase(query)) # <<>>
    /\ \/ ~HasData(s.selectedState)
       \/ selectNodesThrows(s, matchedNodes(s.selectedState, trim(toLowerCase(query))))

\* An index that is patched: the entries of the snapshot selected before stay.
calculateConnectivityPatched(s) ==
    [s EXCEPT
        !.connectionMap =
            ConnectionMapOf(currentNodes(s.selectedState),
                            IF HasData(s.selectedState)
                            THEN graphData[s.selectedState].edges ELSE <<>>) @@ @,
        !.nodeIdMap = NodeIdMapOf(currentNodes(s.selectedState)) @@ @]

calculateConnectivity(s) ==
    [s EXCEPT
        !.connectionMap =
            ConnectionMapOf(currentNodes(s.selectedState),
                            IF HasData(s.selectedState)
                            THEN graphData[s.selectedState].edges ELSE <<>>),
        !.nodeIdMap = NodeIdMapOf(currentNodes(s.selectedState))]

-----------------------------------------------------------------------------
(* _drawGraphInternal *)

\* The positions the engine may put a node at when it is free to (its own
\* arrangement, a physics step, a drag).
EnginePlaces == {[x |-> 0, y |-> 0], [x |-> 50, y |-> 50]}

\* A filter that drops the edges with an end that is no node of the snapshot.
ConnectedNodesOfKnownEdges(rawData) ==
    LET ids == {n.id : n \in Range(rawData.nodes)}
        known == {e \in Range(rawData.edges) : e.from \in ids /\ e.to \in ids}
        connectedNodeIds == {e.from : e \in known} \cup {e.to : e \in known}
        copies == [i \in 1..Len(rawData.nodes) |-> RenderNode(rawData.nodes[i])]
    IN  SelectSeq(copies, LAMBDA n : n.id \in connectedNodeIds)

\* data.nodes after optimizeNodeRendering and the disconnected-node filter
ConnectedNodes(rawData) ==
    LET connectedNodeIds == {e.from : e \in Range(rawData.edges)}
                            \cup {e.to : e \in Range(rawData.edges)}
        copies == [i \in 1..Len(rawData.nodes) |-> RenderNode(rawData.nodes[i])]
    IN  SelectSeq(copies, LAMBDA n : n.id \in connectedNodeIds)

\* Cached positions applied on the x axis alone.
ApplyCachedPositionsXOnly(nodes, cachedPositions) ==
    [i \in 1..Len(nodes) |->
        IF nodes[i].id \in DOMAIN cachedPositions
        THEN [nodes[i] EXCEPT !.x = Def(cachedPositions[nodes[i].id].x)]
        ELSE nodes[i]]

\* "Apply cached positions"
ApplyCachedPositions(nodes, cachedPositions) ==
    [i \in 1..Len(nodes) |->
        IF nodes[i].id \in DOMAIN cachedPositions
        THEN [nodes[i] EXCEPT !.x = Def(cachedPositions[nodes[i].id].x),
                              !.y = Def(cachedPositions[nodes[i].id].y)]
        ELSE nodes[i]]

\* "Pre-position nodes based on layout ONLY if no cache"
PrePosition(layout, nodes) ==
    CASE layout = "hierarchicalLR" -> applyManualLTRLayout(nodes)
      [] layout = "clusteredForce" -> applyRoughPositioning(nodes)
      [] OTHER -> nodes

PrePositioning(layout) ==
    CASE layout = "hierarchicalLR" -> "applyManualLTRLayout"
      [] layout = "clusteredForce" -> "applyRoughPositioning"
      [] OTHER -> "none"

CacheKey(state, layout) == <<state, layout>>

\* "If we have cached positions, we can disable stabilization to load instantly"
BuildOptions(layout, hit) ==
    LET options == getLayoutOptions(layout)
    IN  IF hit /\ options.physics
        THEN [options EXCEPT !.stabilization = FALSE]
        ELSE options

\* Where the engine puts a node on an axis it was given no coordinate for.
EngineOrigin == [x |-> 0, y |-> 0]

\* new vis.Network(container, data, options) and the handlers registered on it.
NewNetwork(cacheKey, nodes, edges, options, hit, pre) ==
    [tag |-> "Network",
     cacheKey |-> cacheKey,
     nodes |-> nodes,
     edges |-> edges,
     options |-> options,
     fromCache |-> hit,
     prePositioning |-> pre,
     pos |-> [id \in {n.id : n \in Range(nodes)} |->
                LET n == CHOOSE m \in Range(nodes) : m.id = id
                IN  [x |-> IF n.x = Undefined THEN EngineOrigin.x ELSE n.x[1],
                     y |-> IF n.y = Undefined THEN EngineOrigin.y ELSE n.y[1]]],
     physics |-> options.physics,
     stabilizationOnce |-> TRUE,
     selection |-> {},
     focus |-> "",
     nodeStyle |-> [id \in {n.id : n \in Range(nodes)} |-> "source"],
     edgeStyle |-> [i \in 1..Len(edges) |-> "source"]]

\* Teardown: "Clean up previous network instance and timers"
Teardown(s) ==
    LET s1 == DestroyNetwork(s)
    IN  IF s1.stabilizationTimeout # 0
        THEN clearTimeout(s1, s1.stabilizationTimeout)
        ELSE s1

\* The construction part of _drawGraphInternal, container and dataset present,
\* up to the handlers registered on the new instance.
Construct(s) ==
    LET rawData == graphData[s.selectedState]
        connected == ConnectedNodes(rawData)
        cacheKey == CacheKey(s.selectedState, s.selectedLayout)
        hit == cacheKey \in DOMAIN s.layoutCache
        nodes == IF hit
                 THEN ApplyCachedPositions(connected, s.layoutCache[cacheKey])
                 ELSE PrePosition(s.selectedLayout, connected)
        options == BuildOptions(s.selectedLayout, hit)
    IN  [s EXCEPT
                 !.isPhysicsEnabled = options.physics,
                 !.network = NewNetwork(cacheKey, nodes, rawData.edges, options, hit,
                                        IF hit THEN "none"
                                        ELSE PrePositioning(s.selectedLayout)),
                 !.engineLive = @ + 1,
                 \* every timer still pending was armed before this build
                 !.timers = {[t EXCEPT !.stale = TRUE] : t \in @}]

\* The end of _drawGraphInternal: the search is applied again, then the loading
\* flag is cleared; an exception of the search leaves the flag as it is.
FinishBuild(s) ==
    IF s.searchTerm = <<>> THEN [s EXCEPT !.isLoading = FALSE]
    ELSE IF searchNodesThrows(s, s.searchTerm) THEN searchNodes(s, s.searchTerm)
    ELSE [searchNodes(s, s.searchTerm) EXCEPT !.isLoading = FALSE]

\* A deferred step that builds without looking for the container.
drawGraphInternalNoGuard(s) ==
    LET s1 == Teardown(s)
    IN  IF ~HasData(s1.selectedState) THEN [s1 EXCEPT !.isLoading = FALSE]
        ELSE FinishBuild(Construct(s1))

drawGraphInternal(s) ==
    LET s1 == Teardown(s)
    IN  IF ~ContainerExists(s1) THEN [s1 EXCEPT !.isLoading = FALSE]
        ELSE IF ~HasData(s1.selectedState) THEN [s1 EXCEPT !.isLoading = FALSE]
        ELSE FinishBuild(Construct(s1))

-----------------------------------------------------------------------------
(* The handlers registered on the instance, and the timer callbacks *)

\* The positions stored under the key of the selection at the time of the event.
SavePositionsUnderSelection(s) ==
    [s EXCEPT !.layoutCache =
        (<<s.selectedState, s.selectedLayout>> :> s.network.pos) @@ @]

\* layoutCache[cacheKey] = network.getPositions(), cacheKey being the key the
\* handler closed over at build time
SavePositions(s) ==
    [s EXCEPT !.layoutCache = (s.network.cacheKey :> s.network.pos) @@ @]

StabilizedDelay(layout) == IF layout = "hierarchicalLR" THEN 2000 ELSE 3000
ToggleDelay == 3000

\* once('stabilizationIterationsDone')
onStabilizationIterationsDone(s) ==
    LET s1 == SavePositions([s EXCEPT !.network.stabilizationOnce = FALSE])
    IN  ArmTimer(s1, "stabilized", StabilizedDelay(s1.selectedLayout))

\* on("dragEnd")
onDragEnd(s) == SavePositions(s)

\* A callback that stops the engine and leaves the flag.
PhysicsOffEngineOnly(s) == [s EXCEPT !.network.physics = FALSE]

\* network.setOptions({physics: false}); isPhysicsEnabled = false
PhysicsOff(s) == [s EXCEPT !.network.physics = FALSE, !.isPhysicsEnabled = FALSE]

\* A callback that leaves physics as it is.
TimerCallbackIdle(s, t) == s

\* The callback of a timer: the stabilization handler's tests this.network, that of
\* togglePhysics this.network && this.isPhysicsEnabled.
TimerCallback(s, t) ==
    IF t.kind = "stabilized"
    THEN IF HasNetwork(s) THEN PhysicsOff(s) ELSE s
    ELSE IF HasNetwork(s) /\ s.isPhysicsEnabled THEN PhysicsOff(s) ELSE s

togglePhysics(s) ==
    IF ~HasNetwork(s) THEN s
    ELSE
        LET s1 == [s EXCEPT !.isPhysicsEnabled = ~@,
                            !.network.physics = ~s.isPhysicsEnabled]
            s2 == IF s1.isPhysicsEnabled /\ s1.stabilizationTimeout # 0
                  THEN [clearTimeout(s1, s1.stabilizationTimeout)
                            EXCEPT !.stabilizationTimeout = 0]
                  ELSE s1
        IN  IF s2.isPhysicsEnabled /\ s2.selectedLayout = "hierarchicalLR"
            THEN ArmTimer(s2, "toggle", ToggleDelay)
            ELSE s2

\* The engine moves node id towards place p, on the axes the node is not pinned on.
MoveNode(s, id, p) ==
    LET n == CHOOSE m \in Range(s.network.nodes) : m.id = id
        q == [x |-> IF n.fixed.x THEN s.network.pos[id].x ELSE p.x,
              y |-> IF n.fixed.y THEN s.network.pos[id].y ELSE p.y]
    IN  [s EXCEPT !.network.pos[id] = q,
                  !.moves = IF q = s.network.pos[id] THEN @ ELSE @ + 1]

-----------------------------------------------------------------------------
(* The search terms the user types *)

Queries == { <<>>, <<" ">>, <<"W", "1", " ">>, <<"z">>, <<"r">> }

\* The physics button of the page is disabled under the top-to-bottom layout.
PhysicsButtonDisabled == selectedLayout = "hierarchicalUD"

-----------------------------------------------------------------------------
(* Actions *)

\* The user picks a snapshot: watch.selectedState
SelectState(state) ==
    /\ state # selectedState
    /\ LET s1 == calculateConnectivity([Cur EXCEPT !.selectedState = state,
                                                  !.selections = @ + 1])
       IN  Commit(IF s1.viewMode = "graph" THEN drawGraph(s1) ELSE s1)

\* A layout watcher that forgets to redraw.
SelectLayoutNoRedraw(layout) ==
    /\ layout # selectedLayout
    /\ Commit([Cur EXCEPT !.selectedLayout = layout, !.selections = @ + 1])

\* The user picks a layout: watch.selectedLayout
SelectLayout(layout) ==
    /\ layout # selectedLayout
    /\ LET s1 == [Cur EXCEPT !.selectedLayout = layout, !.selections = @ + 1]
       IN  Commit(IF s1.viewMode = "graph" THEN drawGraph(s1) ELSE s1)

\* The user edits the search box: watch.searchTerm
SetSearchTerm(query) ==
    /\ query # searchTerm
    /\ LET s1 == [Cur EXCEPT !.searchTerm = query]
       IN  Commit(IF s1.viewMode = "graph" THEN searchNodes(s1, query) ELSE s1)

\* The user switches between graph and table: watch.viewMode ($nextTick included)
SetViewMode(mode) ==
    /\ mode # viewMode
    /\ LET s1 == [Cur EXCEPT !.viewMode = mode]
       IN  Commit(IF mode = "graph" THEN drawGraph(s1) ELSE DestroyNetwork(s1))

\* The user presses the physics button
TogglePhysics ==
    /\ ~PhysicsButtonDisabled
    /\ Commit(togglePhysics(Cur))

\* requestAnimationFrame runs a drawGraph callback, which sets the 10 ms timeout
AnimationFrame ==
    /\ rafQueue > 0
    /\ Commit([Cur EXCEPT !.rafQueue = @ - 1, !.timeoutQueue = @ + 1])

\* The 10 ms timeout of drawGraph expires: _drawGraphInternal
DeferredBuild ==
    /\ timeoutQueue > 0
    /\ Commit(drawGraphInternal([Cur EXCEPT !.timeoutQueue = @ - 1]))

\* The engine ends the stabilization of the live instance
StabilizationIterationsDone ==
    /\ HasNetwork(Cur)
    /\ network.stabilizationOnce
    /\ network.options.physics
    /\ Commit(onStabilizationIterationsDone(Cur))

\* An auto-disable timer expires
TimerFires(t) == Commit(TimerCallback([Cur EXCEPT !.timers = @ \ {t}], t))

TimerExpires == \E t \in timers : TimerFires(t)

\* A physics step of the engine moves a node
PhysicsStep ==
    /\ HasNetwork(Cur)
    /\ network.physics
    /\ \E id \in DOMAIN network.pos, p \in EnginePlaces :
          /\ MoveNode(Cur, id, p).moves > moves
          /\ Commit(MoveNode(Cur, id, p))

\* The user drags a node and lets go
DragNodeTo(id, p) ==
    /\ MoveNode(Cur, id, p).moves > moves
    /\ Commit(onDragEnd(MoveNode(Cur, id, p)))

DragNode ==
    /\ HasNetwork(Cur)
    /\ \E id \in DOMAIN network.pos, p \in EnginePlaces : DragNodeTo(id, p)

\* The user drags the canvas and lets go: dragEnd with no node moved
DragCanvas ==
    /\ HasNetwork(Cur)
    /\ Commit(onDragEnd(Cur))

\* The user clicks a node: selectNode
SelectNode ==
    /\ HasNetwork(Cur)
    /\ \E id \in DOMAIN network.pos :
          /\ network.selection # {id}
          /\ Commit(applyHighlight([Cur EXCEPT !.network.selection = {id}], <<id>>))

\* The user clicks the canvas while nodes are selected: deselectNode
DeselectNode ==
    /\ HasNetwork(Cur)
    /\ network.selection # {}
    /\ Commit(resetNodeStyles([Cur EXCEPT !.network.selection = {}]))

-----------------------------------------------------------------------------
(* The debug panel.  showDebug is the flag; seen is the value the showDebug   *)
(* watcher last ran with (Vue runs a watcher after the change, and only when  *)
(* the value differs from the one it last saw); logInterval is 0 (null) or an *)
(* interval id; intervals holds the ids of the browser's active intervals.    *)

\* data(): showDebug false, logInterval null
DebugClosed ==
    [showDebug |-> FALSE, seen |-> FALSE, logInterval |-> 0, intervals |-> {},
     created |-> 0, toggles |-> 0, fetches |-> 0]

\* The handler's result becomes the next state of the debug panel.
DebugCommit(d) ==
    /\ d.toggles <= MaxToggles
    /\ d.fetches <= MaxFetches
    /\ debug' = d
    /\ UNCHANGED <<selectedState, selectedLayout, searchTerm, viewMode, network,
                   isPhysicsEnabled, isLoading, stabilizationTimeout, connectionMap,
                   nodeIdMap, layoutCache, timers, rafQueue, timeoutQueue,
                   engineLive, moves, selections, input, output, js>>

\* toggleDebugPanel
ToggleDebugPanel ==
    DebugCommit([debug EXCEPT !.showDebug = ~@, !.toggles = @ + 1])

\* watch.showDebug with the interval left running when the panel closes
watchShowDebugNoClear(d, newVal) ==
    IF newVal
    THEN [d EXCEPT !.fetches = @ + 1, !.created = @ + 1, !.logInterval = d.created + 1,
                   !.intervals = @ \cup {d.created + 1}]
    ELSE [d EXCEPT !.logInterval = 0]

\* watch.showDebug(newVal): setInterval returns an id no interval had before
watchShowDebug(d, newVal) ==
    IF newVal
    THEN [d EXCEPT !.fetches = @ + 1, !.created = @ + 1, !.logInterval = d.created + 1,
                   !.intervals = @ \cup {d.created + 1}]
    ELSE IF d.logInterval # 0
         THEN [d EXCEPT !.intervals = @ \ {d.logInterval}, !.logInterval = 0]
         ELSE d

\* Vue runs the showDebug watcher: the flag differs from the value last seen
ShowDebugWatcher ==
    /\ debug.showDebug # debug.seen
    /\ DebugCommit([watchShowDebug(debug, debug.showDebug)
                       EXCEPT !.seen = debug.showDebug])

\* An interval fires: fetchLogs
LogIntervalFires ==
    /\ debug.intervals # {}
    /\ DebugCommit([debug EXCEPT !.fetches = @ + 1])

\* The page runs the Vue controller: the plain-JS controller is not loaded.
JsNone == [tag |-> "none"]

\* The state after data() and mounted()
Init ==
    /\ selectedState = "past"
    /\ selectedLayout = "clusteredForce"
    /\ searchTerm = <<>>
    /\ viewMode = "graph"
    /\ network = NoNetwork
    /\ isPhysicsEnabled = TRUE
    /\ isLoading = TRUE
    /\ stabilizationTimeout = 0
    /\ connectionMap = ConnectionMapOf(graphData.past.nodes, graphData.past.edges)
    /\ nodeIdMap = NodeIdMapOf(graphData.past.nodes)
    /\ layoutCache = <<>>
    /\ timers = {}
    /\ rafQueue = 1
    /\ timeoutQueue = 0
    /\ engineLive = 0
    /\ moves = 0
    /\ selections = 0
    /\ input = <<>>
    /\ output = <<>>
    /\ js = JsNone
    /\ debug = DebugClosed

Next ==
    \/ \E state \in States : SelectState(state)
    \/ \E layout \in Layouts : SelectLayout(layout)
    \/ \E query \in Queries : SetSearchTerm(query)
    \/ \E mode \in ViewModes : SetViewMode(mode)
    \/ TogglePhysics
    \/ AnimationFrame
    \/ DeferredBuild
    \/ StabilizationIterationsDone
    \/ TimerExpires
    \/ PhysicsStep
    \/ DragNode
    \/ DragCanvas
    \/ SelectNode
    \/ DeselectNode
    \/ ToggleDebugPanel
    \/ ShowDebugWatcher
    \/ LogIntervalFires

Spec == Init /\ [][Next]_vars

-----------------------------------------------------------------------------
(* Environments.  Every handler is the same in all of them; they differ in  *)
(* which events the user and the engine produce.                            *)

\* Selections, view switches, searches and clicks, and the deferred builds they
\* start; the engine raises no stabilization event and moves no node.
NextBuild ==
    \/ \E state \in States : SelectState(state)
    \/ \E layout \in Layouts : SelectLayout(layout)
    \/ \E query \in Queries : SetSearchTerm(query)
    \/ \E mode \in ViewModes : SetViewMode(mode)
    \/ AnimationFrame
    \/ DeferredBuild
    \/ SelectNode
    \/ DeselectNode

SpecBuild == Init /\ [][NextBuild]_vars

\* Selections, view switches and the physics button, with the engine's
\* stabilization events and the auto-disable timers.
NextPhysics ==
    \/ \E state \in States : SelectState(state)
    \/ \E layout \in Layouts : SelectLayout(layout)
    \/ \E mode \in ViewModes : SetViewMode(mode)
    \/ TogglePhysics
    \/ AnimationFrame
    \/ DeferredBuild
    \/ StabilizationIterationsDone
    \/ TimerExpires

SpecPhysics == Init /\ [][NextPhysics]_vars

\* Selections, with the engine's stabilization events, its physics steps and the
\* user's drags: the environment of the position cache.
NextCache ==
    \/ \E state \in States : SelectState(state)
    \/ \E layout \in Layouts : SelectLayout(layout)
    \/ AnimationFrame
    \/ DeferredBuild
    \/ StabilizationIterationsDone
    \/ TimerExpires
    \/ PhysicsStep
    \/ DragNode
    \/ DragCanvas

SpecCache == Init /\ [][NextCache]_vars

\* The cache under an engine that signals stabilization complete for instances
\* built on a cache miss alone
StabilizationComplete ==
    /\ HasNetwork(Cur)
    /\ ~network.fromCache
    /\ StabilizationIterationsDone

NextStabilized ==
    \/ \E state \in States : SelectState(state)
    \/ \E layout \in Layouts : SelectLayout(layout)
    \/ AnimationFrame
    \/ DeferredBuild
    \/ StabilizationComplete
    \/ TimerExpires
    \/ PhysicsStep
    \/ DragNode
    \/ DragCanvas

SpecStabilized == Init /\ [][NextStabilized]_vars

\* The lifecycle while the user leaves the physics button alone; a timer the
\* browser holds expires after its delay.
NextSettle ==
    \/ \E state \in States : SelectState(state)
    \/ \E layout \in Layouts : SelectLayout(layout)
    \/ \E mode \in ViewModes : SetViewMode(mode)
    \/ AnimationFrame
    \/ DeferredBuild
    \/ StabilizationIterationsDone
    \/ TimerExpires

SpecSettle == Init /\ [][NextSettle]_vars /\ WF_vars(TimerExpires)

\* Searches and snapshot selections, and the deferred builds they start: every
\* highlight is that of a search.
NextQuery ==
    \/ \E state \in States : SelectState(state)
    \/ \E query \in Queries : SetSearchTerm(query)
    \/ AnimationFrame
    \/ DeferredBuild

SpecQuery == Init /\ [][NextQuery]_vars

\* The debug panel alone: the user toggles it and the intervals fire.
NextDebug ==
    \/ ToggleDebugPanel
    \/ ShowDebugWatcher
    \/ LogIntervalFires

SpecDebug == Init /\ [][NextDebug]_vars

\* calculateConnectivity as a function of the node list and the edge list
MaxNodes == 3
MaxEdges == 2
InputIds == {"a", "b", "c"}
EdgeEnds == InputIds \cup {"x"}
SeqsUpTo(S, n) == UNION {[1..k -> S] : k \in 0..n}
InputNodes == {Node(id, id, id, "feed") : id \in InputIds}
InputEdges == {Edge("e", from, to) : from \in EdgeEnds, to \in EdgeEnds}
Inputs == [nodes : SeqsUpTo(InputNodes, MaxNodes), edges : SeqsUpTo(InputEdges, MaxEdges)]

InitConnectivity ==
    /\ input \in Inputs
    /\ output = <<>>
    /\ js = JsNone
    /\ debug = DebugClosed
    /\ selectedState = "past"
    /\ selectedLayout = "clusteredForce"
    /\ searchTerm = <<>>
    /\ viewMode = "graph"
    /\ network = NoNetwork
    /\ isPhysicsEnabled = TRUE
    /\ isLoading = FALSE
    /\ stabilizationTimeout = 0
    /\ connectionMap = <<>>
    /\ nodeIdMap = <<>>
    /\ layoutCache = <<>>
    /\ timers = {}
    /\ rafQueue = 0
    /\ timeoutQueue = 0
    /\ engineLive = 0
    /\ moves = 0
    /\ selections = 0

Connect ==
    /\ output = <<>>
    /\ output' = [connectionMap |-> ConnectionMapOf(input.nodes, input.edges),
                  nodeIdMap |-> NodeIdMapOf(input.nodes)]
    /\ UNCHANGED <<selectedState, selectedLayout, searchTerm, viewMode, network,
                   isPhysicsEnabled, isLoading, stabilizationTimeout, connectionMap,
                   nodeIdMap, layoutCache, timers, rafQueue, timeoutQueue,
                   engineLive, moves, selections, input, js, debug>>

NextConnectivity == Connect

SpecConnectivity == InitConnectivity /\ [][NextConnectivity]_vars

-----------------------------------------------------------------------------
(* The data preparation of _drawGraphInternal on objects with identity: the   *)
(* heap is a sequence of objects, a reference is an index into it, and the    *)
(* source records of the snapshot are the objects 1..Len(rawData.nodes)       *)

\* Every variable of the Vue controller at rest.
VueIdle ==
    /\ selectedState = "past"
    /\ selectedLayout = "clusteredForce"
    /\ searchTerm = <<>>
    /\ viewMode = "graph"
    /\ network = NoNetwork
    /\ isPhysicsEnabled = TRUE
    /\ isLoading = FALSE
    /\ stabilizationTimeout = 0
    /\ connectionMap = <<>>
    /\ nodeIdMap = <<>>
    /\ layoutCache = <<>>
    /\ timers = {}
    /\ rafQueue = 0
    /\ timeoutQueue = 0
    /\ engineLive = 0
    /\ moves = 0
    /\ selections = 0
    /\ debug = DebugClosed

\* Both controllers at rest, for a function checked on its own.
Idle == js = JsNone /\ VueIdle

IdleUnchanged ==
    UNCHANGED <<selectedState, selectedLayout, searchTerm, viewMode, network,
                isPhysicsEnabled, isLoading, stabilizationTimeout, connectionMap,
                nodeIdMap, layoutCache, timers, rafQueue, timeoutQueue,
                engineLive, moves, selections, input, js, debug>>

\* The render objects are written in place of the source records.
ShallowCopy(heap, rawData) ==
    LET kept == {n.id : n \in Range(ConnectedNodes(rawData))}
    IN  [heap |-> heap,
         refs |-> SelectSeq([i \in 1..Len(rawData.nodes) |-> i],
                            LAMBDA i : rawData.nodes[i].id \in kept)]

\* data = JSON.parse(JSON.stringify(rawData)), optimizeNodeRendering and the
\* filter: the render objects are new objects.
DeepCopy(heap, rawData) ==
    LET copies == ConnectedNodes(rawData)
    IN  [heap |-> heap \o copies,
         refs |-> [i \in 1..Len(copies) |-> Len(heap) + i]]

\* node.x = ..., node.y = ..., node.fixed = ... on the objects refs point at
Store(heap, refs, nodes) ==
    [i \in 1..Len(heap) |->
        IF \E k \in DOMAIN refs : refs[k] = i
        THEN LET k == CHOOSE k \in DOMAIN refs : refs[k] = i
             IN  nodes[k] @@ heap[i]
        ELSE heap[i]]

SnapshotNodes ==
    {Node("a", <<"a">>, <<"A">>, "feed"), Node("b", <<"b">>, <<"B">>, "warehouse"),
     Node("c", <<"c">>, <<"C">>, "datalake")}

CachedSample == [id \in InputIds |-> [x |-> 50, y |-> 50]]

RenderInputs ==
    [nodes : {ns \in SeqsUpTo(SnapshotNodes, MaxNodes) :
                 \A i, j \in DOMAIN ns : ns[i].id = ns[j].id => i = j},
     edges : SeqsUpTo(InputEdges, MaxEdges),
     layout : Layouts,
     cached : BOOLEAN]

\* Lines 414-468 of _drawGraphInternal, and calculateConnectivity on the same data
RenderPipeline(in) ==
    LET rawData == [nodes |-> in.nodes, edges |-> in.edges]
        c == DeepCopy(in.nodes, rawData)
        views == ConnectedNodes(rawData)
        nodes == IF in.cached
                 THEN ApplyCachedPositions(views, CachedSample)
                 ELSE PrePosition(in.layout, views)
    IN  [heap |-> Store(c.heap, c.refs, nodes),
         source |-> [i \in 1..Len(in.nodes) |-> i],
         rendered |-> c.refs,
         connectionMap |-> ConnectionMapOf(in.nodes, in.edges)]

InitRender == input \in RenderInputs /\ output = <<>> /\ Idle

Render ==
    /\ output = <<>>
    /\ output' = RenderPipeline(input)
    /\ IdleUnchanged

NextRender == Render

SpecRender == InitRender /\ [][NextRender]_vars

-----------------------------------------------------------------------------
(* The pre-positioning functions as functions of the node list *)

MaxFeeds == 9
MaxBucket == 2
LayoutGroups ==
    <<"feed", "warehouse", "datalake", "virtualisation", "logical_dw", "other">>

\* The node lists: how many nodes each group has, and whether the list is in
\* the order of LayoutGroups or in the reverse of it.
LayoutInputs ==
    [size : {f \in [1..Len(LayoutGroups) -> 0..MaxFeeds] :
                \A g \in 2..Len(LayoutGroups) : f[g] <= MaxBucket},
     reversed : BOOLEAN]

RECURSIVE Concat(_, _)
Concat(f, n) == IF n = 0 THEN <<>> ELSE Concat(f, n - 1) \o f[n]

\* The render copies of the node list of an input
LayoutNodes(in) ==
    LET part == [g \in 1..Len(LayoutGroups) |->
                    [k \in 1..in.size[g] |->
                        [id |-> <<LayoutGroups[g], k>>, group |-> LayoutGroups[g],
                         x |-> Undefined, y |-> Undefined, fixed |-> NotFixed]]]
        nodes == Concat(part, Len(LayoutGroups))
    IN  IF in.reversed
        THEN [i \in 1..Len(nodes) |-> nodes[Len(nodes) + 1 - i]]
        ELSE nodes

InitLayout == input \in LayoutInputs /\ output = <<>> /\ Idle

ManualLTRLayout ==
    /\ output = <<>>
    /\ output' = [by |-> "applyManualLTRLayout",
                  nodes |-> applyManualLTRLayout(LayoutNodes(input))]
    /\ IdleUnchanged

RoughPositioning ==
    /\ output = <<>>
    /\ output' = [by |-> "applyRoughPositioning",
                  nodes |-> applyRoughPositioning(LayoutNodes(input))]
    /\ IdleUnchanged

NextLayout == ManualLTRLayout \/ RoughPositioning

SpecLayout == InitLayout /\ [][NextLayout]_vars

-----------------------------------------------------------------------------
(* The match set of searchNodes as a function of the snapshot and the query *)

MaxQuery == 2
QueryChars == {"W", "c", "z", "r", "1", " "}
SearchInputs == [state : DOMAIN graphData, query : SeqsUpTo(QueryChars, MaxQuery)]

\* Lines 702-717 of searchNodes: no match set is computed for a query that is
\* empty once trimmed.
SearchMatches(in) ==
    LET lowerCaseQuery == trim(toLowerCase(in.query))
    IN  [lowerCaseQuery |-> lowerCaseQuery,
         nodesToSelect |-> IF lowerCaseQuery = <<>> THEN <<>>
                           ELSE matchedNodes(in.state, lowerCaseQuery)]

InitSearch == input \in SearchInputs /\ output = <<>> /\ Idle

Search ==
    /\ output = <<>>
    /\ output' = SearchMatches(input)
    /\ IdleUnchanged

NextSearch == Search

SpecSearch == InitSearch /\ [][NextSearch]_vars

-----------------------------------------------------------------------------
(* The plain-JS controller (src/static/js/app.js): one engine instance made   *)
(* at page load, reconfigured by updateLayout; the page loads either this     *)
(* script or the Vue controller                                               *)

\* The state after init(): the first updateGraphData waits for its 300 ms timeout.
\* physics: the physics.enabled option the engine holds; running: a simulation
\* is in progress; fitQueue: the layouts whose 200 ms callback is pending;
\* stopTimers: the pending 5000 ms stopSimulation callbacks; staleStops: those
\* of them armed for a simulation before the latest snapshot change, layout
\* change or physics re-enable (no callback is ever cancelled, and callbacks of
\* one delay run in the order they were armed); staleFits: the entries at the
\* head of fitQueue that were queued before the latest of those actions.
JsInit ==
    [tag |-> "app", selectedState |-> "past", selectedLayout |-> "clusteredForce",
     isPhysicsEnabled |-> TRUE, physics |-> FALSE, running |-> FALSE,
     fitQueue |-> <<>>, stopTimers |-> 0, staleStops |-> 0, staleFits |-> 0,
     loaded |-> FALSE]

JsLoaded == js.tag = "app"

updateLayout(j) ==
    IF j.selectedLayout = "hierarchicalUD"
    THEN [j EXCEPT !.physics = FALSE, !.isPhysicsEnabled = FALSE, !.running = FALSE]
    ELSE [j EXCEPT !.physics = j.isPhysicsEnabled, !.running = j.isPhysicsEnabled]

updateGraphData(j) ==
    IF ~HasData(j.selectedState) THEN j
    ELSE LET j1 == updateLayout([j EXCEPT !.running = FALSE,
                                          !.staleStops = j.stopTimers,
                                          !.staleFits = Len(j.fitQueue)])
         IN  IF j1.isPhysicsEnabled /\ j1.selectedLayout # "hierarchicalUD"
             THEN [j1 EXCEPT !.stopTimers = @ + 1]
             ELSE j1

\* The handler's result becomes the next state of the plain-JS controller.
JsCommit(j) ==
    /\ Len(j.fitQueue) <= MaxPending
    /\ j.stopTimers <= MaxTimers
    /\ js' = j
    /\ UNCHANGED <<selectedState, selectedLayout, searchTerm, viewMode, network,
                   isPhysicsEnabled, isLoading, stabilizationTimeout, connectionMap,
                   nodeIdMap, layoutCache, timers, rafQueue, timeoutQueue,
                   engineLive, moves, selections, input, output, debug>>

\* The 300 ms timeout of init()
JsInitTimeout ==
    /\ JsLoaded
    /\ ~js.loaded
    /\ JsCommit(updateGraphData([js EXCEPT !.loaded = TRUE]))

\* A click on a snapshot button
JsStateClick(k) ==
    /\ JsLoaded
    /\ JsCommit(updateGraphData([js EXCEPT !.selectedState = k]))

\* A click on a layout button
JsLayoutClick(k) ==
    /\ JsLoaded
    /\ LET j1 == [js EXCEPT !.selectedLayout = k,
                            !.isPhysicsEnabled = IF k # "hierarchicalUD" THEN TRUE ELSE @,
                            !.staleStops = js.stopTimers,
                            !.staleFits = Len(js.fitQueue)]
       IN  JsCommit([updateLayout([j1 EXCEPT !.running = FALSE])
                        EXCEPT !.fitQueue = Append(@, k)])

\* The 200 ms timeout of a layout click
JsFitTimeout ==
    /\ JsLoaded
    /\ js.fitQueue # <<>>
    /\ LET k == Head(js.fitQueue)
           j1 == [js EXCEPT !.fitQueue = Tail(@),
                            !.staleFits = IF @ > 0 THEN @ - 1 ELSE 0]
       IN  JsCommit(IF j1.isPhysicsEnabled /\ k # "hierarchicalUD"
                    THEN [j1 EXCEPT !.stopTimers = @ + 1,
                                    !.staleStops = IF js.staleFits > 0 THEN @ + 1 ELSE @]
                    ELSE j1)

\* A click on the physics button
JsPhysicsClick ==
    /\ JsLoaded
    /\ JsCommit(IF js.selectedLayout = "hierarchicalUD" THEN js
                ELSE IF ~js.isPhysicsEnabled
                THEN [js EXCEPT !.isPhysicsEnabled = TRUE, !.physics = TRUE,
                                !.running = TRUE, !.stopTimers = @ + 1,
                                !.staleStops = js.stopTimers,
                                !.staleFits = Len(js.fitQueue)]
                ELSE [js EXCEPT !.isPhysicsEnabled = FALSE, !.physics = FALSE])

\* A 5000 ms timeout expires: network.stopSimulation()
JsStopTimeout ==
    /\ JsLoaded
    /\ js.stopTimers > 0
    /\ JsCommit([js EXCEPT !.stopTimers = @ - 1,
                            !.staleStops = IF @ > 0 THEN @ - 1 ELSE 0,
                            !.running = FALSE])

\* stabilizationIterationsDone: network.stopSimulation()
JsStabilizationDone ==
    /\ JsLoaded
    /\ js.running
    /\ JsCommit([js EXCEPT !.running = FALSE])

NextJs ==
    \/ JsInitTimeout
    \/ \E k \in States : JsStateClick(k)
    \/ \E k \in Layouts : JsLayoutClick(k)
    \/ JsFitTimeout
    \/ JsPhysicsClick
    \/ JsStopTimeout
    \/ JsStabilizationDone

InitJs == js = JsInit /\ input = <<>> /\ output = <<>> /\ VueIdle

\* Physics under either controller
InitUD == Init \/ InitJs

NextUD ==
    \/ js = JsNone /\ NextPhysics
    \/ NextJs

SpecUD == InitUD /\ [][NextUD]_vars

-----------------------------------------------------------------------------
(* populateAllNodes of the plain-JS controller as a function of graphData *)

MaxSnapshot == 2

\* graphData: for each snapshot key either no dataset or a node list; a node
\* record carries its id and, as label, the snapshot and place it comes from.
AllNodesInputs ==
    LET ids == {"a", "b"}
        lists(key) ==
            UNION {{[i \in 1..k |-> [id |-> f[i], label |-> <<key, i>>]] :
                        f \in [1..k -> ids]} : k \in 0..MaxSnapshot}
        datasets(key) == {[present |-> FALSE, nodes |-> <<>>]}
                         \cup {[present |-> TRUE, nodes |-> l] : l \in lists(key)}
    IN  {[past |-> p, current |-> c, future |-> f] :
            p \in datasets("past"), c \in datasets("current"), f \in datasets("future")}

\* A list in which the record of a later snapshot replaces the one kept.
populateAllNodesLastWins(gd) ==
    LET all == gd.past.nodes \o gd.current.nodes \o gd.future.nodes
        kept == SelectSeq([i \in DOMAIN all |-> i],
                          LAMBDA i : \A j \in (i + 1)..Len(all) : all[j].id # all[i].id)
    IN  [k \in DOMAIN kept |-> all[kept[k]]]

\* allNodes after populateAllNodes: the values of the Map in insertion order,
\* each a JSON copy of the first record seen for its id; a snapshot without
\* dataset contributes (graphData[key]?.nodes || []) = [].
populateAllNodes(gd) ==
    LET all == (IF gd.past.present THEN gd.past.nodes ELSE <<>>)
               \o (IF gd.current.present THEN gd.current.nodes ELSE <<>>)
               \o (IF gd.future.present THEN gd.future.nodes ELSE <<>>)
        kept == SelectSeq([i \in DOMAIN all |-> i],
                          LAMBDA i : \A j \in 1..(i - 1) : all[j].id # all[i].id)
    IN  [k \in DOMAIN kept |-> [id |-> all[kept[k]].id, label |-> all[kept[k]].label]]

PopulateAll ==
    /\ output = <<>>
    /\ output' = [allNodes |-> populateAllNodes(input)]
    /\ IdleUnchanged

InitAllNodes == input \in AllNodesInputs /\ output = <<>> /\ Idle

NextAllNodes == PopulateAll

SpecAllNodes == InitAllNodes /\ [][NextAllNodes]_vars

-----------------------------------------------------------------------------
(* Claims *)

AllNodeIds == {"F1", "W1", "F2", "V1"}
SelectedKey == CacheKey(selectedState, selectedLayout)
PendingBuilds == rafQueue + timeoutQueue
RenderedIds(state) == {n.id : n \in Range(ConnectedNodes(graphData[state]))}

\* C1: an auto-disable timer that was armed before the latest build constructed
\* its instance never switches physics off on that instance: when such a timer
\* expires, its callback leaves the instance and isPhysicsEnabled as they are.
C1_StaleTimerChangesNothing ==
    [][\A t \in timers :
          (t.stale /\ TimerFires(t)) =>
              (network' = network /\ isPhysicsEnabled' = isPhysicsEnabled)]_vars

\* C2: at most one engine instance is live, and it is the one the controller holds.
C2_AtMostOneLiveInstance ==
    /\ engineLive <= 1
    /\ HasNetwork(Cur) <=> engineLive = 1

\* An instance that replaced an earlier one is live alone.
C2_Witness ==
    /\ HasNetwork(Cur)
    /\ engineLive = 1
    /\ network.cacheKey # CacheKey("past", "clusteredForce")

\* C3: at most one deferred build is outstanding at any time.
C3_AtMostOneDeferredBuild == PendingBuilds <= 1

\* C4: at most one auto-disable timer is pending at any time.
C4_AtMostOneTimerPending == Cardinality(timers) <= 1

\* C5: a drag-end on one node changes, in the cache entry of the instance's key,
\* the coordinate of that node alone, and leaves the entries of other keys alone.
C5_DragEndPatchesOneNode ==
    [][\A id \in AllNodeIds, p \in EnginePlaces :
          ( /\ HasNetwork(Cur)
            /\ id \in DOMAIN network.pos
            /\ network.cacheKey \in DOMAIN layoutCache
            /\ DragNodeTo(id, p) ) =>
              /\ \A k \in DOMAIN layoutCache \ {network.cacheKey} :
                    k \in DOMAIN layoutCache' /\ layoutCache'[k] = layoutCache[k]
              /\ \A m \in DOMAIN layoutCache[network.cacheKey] \ {id} :
                    layoutCache'[network.cacheKey][m] = layoutCache[network.cacheKey][m]
      ]_vars

\* C6: a build that finds a cache entry for the selected (snapshot, layout) hands
\* every rendered node that has a cached coordinate to the engine at that
\* coordinate, runs no pre-positioning and passes options with stabilization off.
C6_CacheHitRestoresPositions ==
    [][( /\ DeferredBuild
         /\ viewMode = "graph"
         /\ HasData(selectedState)
         /\ SelectedKey \in DOMAIN layoutCache ) =>
            LET cached == layoutCache[SelectedKey]
            IN  /\ network'.tag = "Network"
                /\ network'.cacheKey = SelectedKey
                /\ \A i \in DOMAIN network'.nodes :
                      LET n == network'.nodes[i]
                      IN  n.id \in DOMAIN cached =>
                             /\ n.x = Def(cached[n.id].x)
                             /\ n.y = Def(cached[n.id].y)
                             /\ network'.pos[n.id] = cached[n.id]
                /\ network'.prePositioning = "none"
                /\ ~network'.options.stabilization
      ]_vars

\* An instance built from the cache, after the user has switched away and back,
\* at coordinates the pre-positioning of its layout would not have given.
C6_Witness ==
    /\ HasNetwork(Cur)
    /\ network.fromCache
    /\ selections >= 2
    /\ network.nodes #
          PrePosition(network.cacheKey[2], ConnectedNodes(graphData[network.cacheKey[1]]))
    /\ \A i \in DOMAIN network.nodes :
          network.nodes[i].x # Undefined /\ network.nodes[i].y # Undefined

\* C7: when the engine signals stabilization complete for an instance built on a
\* cache miss, the cache becomes what it was with the instance's full position
\* set stored under the key the instance was built for; no other key changes.
C7_StabilizedPositionsUnderBuildKey ==
    [][( /\ HasNetwork(Cur)
         /\ ~network.fromCache
         /\ StabilizationIterationsDone ) =>
            /\ layoutCache' = (network.cacheKey :> network.pos) @@ layoutCache
            /\ DOMAIN layoutCache'[network.cacheKey] = RenderedIds(network.cacheKey[1])
      ]_vars

\* The handler of an instance built on a miss has stored its positions under its
\* own key while another pair is selected, and nothing under the selected pair.
C7_Witness ==
    /\ HasNetwork(Cur)
    /\ ~network.fromCache
    /\ ~network.stabilizationOnce
    /\ network.cacheKey # SelectedKey
    /\ network.cacheKey[1] # selectedState
    /\ network.cacheKey \in DOMAIN layoutCache
    /\ layoutCache[network.cacheKey] = network.pos
    /\ SelectedKey \notin DOMAIN layoutCache

C10_NeighboursAreKnownEndpoints ==
    output # <<>> =>
        LET ids == {n.id : n \in Range(input.nodes)}
            known == {e \in Range(input.edges) : e.from \in ids /\ e.to \in ids}
            Neighbours(n) == {e.to : e \in {d \in known : d.from = n}}
                                \cup {e.from : e \in {d \in known : d.to = n}}
            cm == output.connectionMap
        IN  /\ DOMAIN cm = ids
            /\ \A n \in ids :
                  /\ Range(cm[n]) = Neighbours(n)
                  /\ Len(cm[n]) = Cardinality(Neighbours(n))

\* Two edges between the same two nodes, in opposite directions, have been
\* indexed for a list of three nodes.
C10_Witness ==
    /\ output # <<>>
    /\ {n.id : n \in Range(input.nodes)} = InputIds
    /\ input.edges = <<Edge("e", "a", "b"), Edge("e", "b", "a")>>
    /\ output.connectionMap["a"] = <<"b">>
    /\ output.connectionMap["b"] = <<"a">>
    /\ output.connectionMap["c"] = <<>>

\* C11: connectionMap and nodeIdMap are the index built from scratch on the nodes
\* and edges of the selected snapshot, in graph view and in table view; they
\* have no key that is not a node of the selected snapshot.
C11_IndexIsOfSelectedSnapshot ==
    LET nodes == currentNodes(selectedState)
        edges == IF HasData(selectedState) THEN graphData[selectedState].edges ELSE <<>>
        ids == {n.id : n \in Range(nodes)}
    IN  /\ connectionMap = ConnectionMapOf(nodes, edges)
        /\ nodeIdMap = NodeIdMapOf(nodes)
        /\ DOMAIN connectionMap = ids
        /\ DOMAIN nodeIdMap = ids
        /\ \A id \in ids : nodeIdMap[id] \in Range(nodes)

\* In table view, after two snapshot changes, the index is that of "current":
\* the nodes F1 and F2 of "past" are gone from it.
C11_Witness ==
    /\ viewMode = "table"
    /\ selections >= 2
    /\ selectedState = "current"
    /\ DOMAIN connectionMap = {"W1", "V1"}
    /\ connectionMap["W1"] = <<"V1">>

\* C17: a deferred build that finds no dataset for the selected snapshot keeps
\* the instance that was live before it, creates none and clears the loading flag.
C17_MissingDataKeepsInstance ==
    [][( /\ DeferredBuild
         /\ viewMode = "graph"
         /\ ~HasData(selectedState) ) =>
            /\ network' = network
            /\ engineLive' = engineLive
            /\ ~isLoading']_vars

\* C18: a deferred build step that finds no container creates no instance,
\* clears the loading flag, leaves the position cache as it is and requests no
\* further build.
C18_MissingContainerAborts ==
    [][( /\ DeferredBuild
         /\ ~ContainerExists(Cur) ) =>
            /\ network' = NoNetwork
            /\ engineLive' = 0
            /\ ~isLoading'
            /\ layoutCache' = layoutCache
            /\ rafQueue' = rafQueue
            /\ timeoutQueue' = timeoutQueue - 1]_vars

\* In table view, with another layout selected since the page was loaded, no
\* build is pending any more, the loading flag is clear and no instance exists.
C18_Witness ==
    /\ viewMode = "table"
    /\ selections >= 1
    /\ PendingBuilds = 0
    /\ ~isLoading
    /\ ~HasNetwork(Cur)
    /\ engineLive = 0

\* C20: after a click on a node, every rendered node is restored if it is the
\* clicked node or is joined to it by an edge of the selected snapshot, and is
\* dimmed otherwise.
C20_HighlightIsOneHopOfSelection ==
    [][SelectNode =>
          LET S == network'.selection
              edges == IF HasData(selectedState)
                       THEN Range(graphData[selectedState].edges) ELSE {}
              near == S \cup {e.to : e \in {d \in edges : d.from \in S}}
                        \cup {e.from : e \in {d \in edges : d.to \in S}}
          IN  \A id \in DOMAIN network'.nodeStyle :
                 network'.nodeStyle[id] = IF id \in near THEN "restored" ELSE "dimmed"
      ]_vars

\* C12: the nodes a build hands to the engine are exactly the nodes of the
\* snapshot that are an end of at least one of its edges; the node list of the
\* snapshot itself still holds every node, those without an edge included.
C12_RenderedAreEdgeEnds ==
    output # <<>> =>
        LET ends == {e.from : e \in Range(input.edges)} \cup {e.to : e \in Range(input.edges)}
        IN  /\ {output.heap[r].id : r \in Range(output.rendered)}
                  = {n.id : n \in Range(input.nodes)} \cap ends
            /\ Len(output.rendered) = Cardinality({n.id : n \in Range(input.nodes)} \cap ends)
            /\ Len(output.source) = Len(input.nodes)
            /\ \A i \in DOMAIN input.nodes : output.heap[output.source[i]].id = input.nodes[i].id

\* Node a is joined to b, node c has no edge: a and b are rendered, c is not,
\* and c is still in the node list of the snapshot.
C12_Witness ==
    /\ output # <<>>
    /\ Len(input.nodes) = 3
    /\ input.edges = <<Edge("e", "a", "b")>>
    /\ {output.heap[r].id : r \in Range(output.rendered)} = {"a", "b"}
    /\ "c" \in {output.heap[r].id : r \in Range(output.source)}

\* C13: a node is rendered only if the connectivity index gives it a neighbour:
\* an edge with an end that is no node of the snapshot keeps no node rendered.
C13_RenderedHaveNeighbours ==
    output # <<>> =>
        \A r \in Range(output.rendered) :
            output.connectionMap[output.heap[r].id] # <<>>

\* C14: the preparation of a build leaves every source record of the snapshot
\* with exactly the fields and values it was delivered with; the positions and
\* pins are written into objects that are no source records.
C14_SourceRecordsUnchanged ==
    output # <<>> =>
        /\ \A i \in DOMAIN input.nodes : output.heap[i] = input.nodes[i]
        /\ Range(output.rendered) \cap Range(output.source) = {}

\* The left-to-right layout has pinned the render object of datalake c on both
\* axes and given it coordinates, and the source record of c has none of them.
C14_Witness ==
    /\ output # <<>>
    /\ input.layout = "hierarchicalLR"
    /\ ~input.cached
    /\ \E r \in Range(output.rendered) :
          /\ output.heap[r].id = "c"
          /\ output.heap[r].fixed = FixedXY
          /\ output.heap[r].x # Undefined
    /\ \E i \in DOMAIN input.nodes :
          /\ input.nodes[i].id = "c"
          /\ DOMAIN output.heap[i] = {"id", "text", "label", "group"}

\* C19: for a query that is not empty once trimmed, the match set of searchNodes
\* is the set of nodes of the selected snapshot whose label or id, lower-cased,
\* has the trimmed lower-cased query as a substring; it holds no node that is
\* not in the node list of the selected snapshot.
C19_MatchesAreOfSelectedSnapshot ==
    (output # <<>> /\ output.lowerCaseQuery # <<>>) =>
        LET q == output.lowerCaseQuery
            query == input.query
            nodes == Range(graphData[input.state].nodes)
            Occurs(t) == \E k \in 0..(Len(t) - Len(q)) :
                            \A j \in 1..Len(q) : LowerChar(t[k + j]) = q[j]
        IN  /\ \E a \in 0..Len(query) :
                  /\ a + Len(q) <= Len(query)
                  /\ \A j \in 1..Len(query) :
                        IF j <= a \/ j > a + Len(q)
                        THEN query[j] = " "
                        ELSE q[j - a] = LowerChar(query[j])
                  /\ q[1] # " " /\ q[Len(q)] # " "
            /\ Range(output.nodesToSelect)
                  = {n.id : n \in {m \in nodes : Occurs(m.label) \/ Occurs(m.text)}}
            /\ \A id \in Range(output.nodesToSelect) : id \in {n.id : n \in nodes}

\* The query "1 " on snapshot "current" matches W1 and V1 by their ids, and not
\* F1, a node of snapshot "past" alone.
C19_Witness ==
    /\ output # <<>>
    /\ input.state = "current"
    /\ input.query = <<"1", " ">>
    /\ output.lowerCaseQuery = <<"1">>
    /\ output.nodesToSelect = <<"W1", "V1">>

\* C16: once the engine has signalled stabilization complete for the live
\* instance, and the user leaves the physics button alone, physics is eventually
\* off on that instance with isPhysicsEnabled false, unless the instance is
\* destroyed or replaced by a build first; and the delay the handler arms is
\* strictly shorter under the left-to-right layout than under the other layouts.
C16_SignalledInstanceSettles ==
    /\ \A layout \in Layouts \ {"hierarchicalLR"} :
          StabilizedDelay("hierarchicalLR") < StabilizedDelay(layout)
    /\ (HasNetwork(Cur) /\ ~network.stabilizationOnce)
          ~> \/ ~HasNetwork(Cur)
             \/ network.stabilizationOnce
             \/ (~network.physics /\ ~isPhysicsEnabled)

\* The timer of the handler has expired on the instance it was armed for: the
\* instance was built with physics on and has it off, and no timer is pending.
C16_Witness ==
    /\ HasNetwork(Cur)
    /\ ~network.stabilizationOnce
    /\ network.options.physics
    /\ ~network.physics
    /\ ~isPhysicsEnabled
    /\ timers = {}

\* The live instance was built for the top-to-bottom layout, which is selected
TopToBottomBuilt(net, layout) ==
    /\ net.tag = "Network"
    /\ layout = "hierarchicalUD"
    /\ net.cacheKey[2] = "hierarchicalUD"

\* Physics is off on the instance and on the button of the Vue controller
VuePhysicsOff(net, flag) ==
    /\ ~net.options.physics
    /\ ~net.physics
    /\ ~flag

\* Physics is off in the plain-JS controller
JsPhysicsOff(j) == ~j.physics /\ ~j.isPhysicsEnabled /\ ~j.running

\* C15: while the top-to-bottom layout is selected and its build has run,
\* physics is off and no auto-disable timer is pending.  Vue controller: a build
\* step taken under the top-to-bottom layout leaves an instance whose options
\* disable physics, with physics off, isPhysicsEnabled false and no timer
\* pending, and every later step that keeps the layout keeps all of that.
\* Plain-JS controller: whenever the top-to-bottom layout is selected (the click
\* runs updateLayout at once), the physics option is off, isPhysicsEnabled is
\* false, no simulation runs and no stop timer is pending.
C15_TopToBottomHasPhysicsOff ==
    [][/\ ( /\ timeoutQueue' < timeoutQueue
            /\ selectedLayout = "hierarchicalUD"
            /\ network'.tag = "Network" ) =>
                /\ TopToBottomBuilt(network', selectedLayout')
                /\ VuePhysicsOff(network', isPhysicsEnabled')
                /\ timers' = {}
       /\ ( /\ TopToBottomBuilt(network, selectedLayout)
            /\ VuePhysicsOff(network, isPhysicsEnabled)
            /\ timers = {}
            /\ TopToBottomBuilt(network', selectedLayout') ) =>
                /\ VuePhysicsOff(network', isPhysicsEnabled')
                /\ timers' = {}
       /\ ( /\ js'.tag = "app"
            /\ js'.selectedLayout = "hierarchicalUD" ) =>
                /\ JsPhysicsOff(js')
                /\ js'.stopTimers = 0
      ]_vars

\* A step in which applyHighlight runs with a non-empty selection: a click on a
\* node, a search with matches, or a build that applies the search again.
HighlightStep ==
    \/ SelectNode
    \/ \E query \in Queries :
          /\ SetSearchTerm(query)
          /\ viewMode = "graph"
          /\ HasNetwork(Cur)
          /\ HasData(selectedState)
          /\ trim(toLowerCase(query)) # <<>>
          /\ matchedNodes(selectedState, trim(toLowerCase(query))) # <<>>
          /\ ~searchNodesThrows(Cur, query)
    \/ /\ DeferredBuild
       /\ ContainerExists(Cur)
       /\ HasData(selectedState)
       /\ trim(toLowerCase(searchTerm)) # <<>>
       /\ Range(matchedNodes(selectedState, trim(toLowerCase(searchTerm)))) # {}
       /\ Range(matchedNodes(selectedState, trim(toLowerCase(searchTerm))))
             \subseteq RenderedIds(selectedState)

\* C21: after applyHighlight has run with a non-empty selection, every edge of
\* the instance is emphasised if both of its ends are in the selection expanded
\* by one hop along the drawn edges, and is hidden otherwise; none keeps the
\* style it had.
C21_EdgesFollowExpandedSelection ==
    [][HighlightStep =>
          LET net == network'
              S == net.selection
              ids == {n.id : n \in Range(net.nodes)}
              drawn == {e \in Range(net.edges) : e.from \in ids /\ e.to \in ids}
              near == S \cup {e.to : e \in {d \in drawn : d.from \in S}}
                        \cup {e.from : e \in {d \in drawn : d.to \in S}}
          IN  \A i \in DOMAIN net.edges :
                 net.edgeStyle[i] =
                    IF net.edges[i].from \in near /\ net.edges[i].to \in near
                    THEN "emphasised" ELSE "hidden"
      ]_vars

\* C22: a second searchNodes with the same non-empty query, run right after the
\* first, leaves the same restored and dimmed nodes, the same emphasised and
\* hidden edges and the same selection as the first.
C22_SearchTwiceIsSearchOnce ==
    HasNetwork(Cur) =>
        \A query \in Queries :
            trim(toLowerCase(query)) # <<>> =>
                LET once == searchNodes([Cur EXCEPT !.searchTerm = query], query)
                    twice == searchNodes(once, query)
                IN  /\ twice.network.nodeStyle = once.network.nodeStyle
                    /\ twice.network.edgeStyle = once.network.edgeStyle
                    /\ twice.network.selection = once.network.selection

\* The search for "z" has run on the instance of snapshot current: V1 is
\* selected, the edge W1-V1 is emphasised and the edge V1-X9 is hidden.
C22_Witness ==
    /\ HasNetwork(Cur)
    /\ selectedState = "current"
    /\ network.cacheKey[1] = "current"
    /\ searchTerm = <<"z">>
    /\ network.selection = {"V1"}
    /\ \E i, j \in DOMAIN network.edgeStyle :
          network.edgeStyle[i] = "emphasised" /\ network.edgeStyle[j] = "hidden"

\* No node of the live instance is selected and every node and edge of it is in
\* its source style.
Unstyled ==
    /\ network.selection = {}
    /\ \A id \in DOMAIN network.nodeStyle : network.nodeStyle[id] = "source"
    /\ \A i \in DOMAIN network.edgeStyle : network.edgeStyle[i] = "source"

\* C23: a search with an empty or whitespace-only query on a live instance
\* clears the selection at once and, when the snapshot has a dataset, requests
\* a rebuild; a build that runs while such a query is the search term leaves an
\* instance with no node selected and every node and edge in its source style;
\* and so is the live instance whenever such a query is the term and no build
\* is pending.
C23_EmptySearchResets ==
    [][/\ \A query \in Queries :
             ( /\ trim(toLowerCase(query)) = <<>>
               /\ SetSearchTerm(query)
               /\ viewMode = "graph"
               /\ HasNetwork(Cur) ) =>
                  /\ network'.selection = {}
                  /\ HasData(selectedState) => PendingBuilds' = PendingBuilds + 1
       /\ ( /\ trim(toLowerCase(searchTerm')) = <<>>
            /\ network'.tag = "Network"
            /\ DeferredBuild \/ PendingBuilds' = 0 ) => Unstyled'
      ]_vars

\* The whitespace-only query has just been typed over the highlight of an
\* earlier search: the selection is cleared, the rebuild is pending and the
\* highlight is still displayed.
C23_Witness ==
    /\ HasNetwork(Cur)
    /\ searchTerm = <<" ">>
    /\ network.selection = {}
    /\ PendingBuilds > 0
    /\ \E i \in DOMAIN network.edgeStyle : network.edgeStyle[i] = "emphasised"

\* The search term is non-empty and matches no node of the selected snapshot
NoMatch ==
    /\ trim(toLowerCase(searchTerm)) # <<>>
    /\ HasData(selectedState)
    /\ matchedNodes(selectedState, trim(toLowerCase(searchTerm))) = <<>>

\* C24: a search with a non-empty query that matches no node of the selected
\* snapshot clears the selection at once and requests a rebuild; a build that
\* runs while the term matches nothing leaves an instance with no node selected
\* and every node and edge in its source style.
C24_NoMatchResets ==
    [][/\ ( /\ \E query \in Queries : SetSearchTerm(query)
            /\ NoMatch'
            /\ viewMode = "graph"
            /\ HasNetwork(Cur) ) =>
               /\ network'.selection = {}
               /\ PendingBuilds' = PendingBuilds + 1
       /\ ( /\ DeferredBuild
            /\ NoMatch
            /\ network'.tag = "Network" ) => Unstyled'
      ]_vars

\* The query "z", which matches nothing in snapshot past, has just been typed
\* over the highlight of an earlier search: the selection is cleared, the
\* rebuild is pending and the highlight is still displayed.
C24_Witness ==
    /\ HasNetwork(Cur)
    /\ selectedState = "past"
    /\ network.cacheKey[1] = "past"
    /\ searchTerm = <<"z">>
    /\ network.selection = {}
    /\ PendingBuilds > 0
    /\ \E i \in DOMAIN network.edgeStyle : network.edgeStyle[i] = "emphasised"

\* C25: a step that requests a build sets the loading flag and neither tears
\* down nor constructs an instance, and the loading flag is false after every
\* deferred build step, however the step ends.
C25_LoadingFlagFollowsBuild ==
    [][/\ PendingBuilds' > PendingBuilds =>
             /\ isLoading'
             /\ engineLive' = engineLive
       /\ DeferredBuild => ~isLoading'
      ]_vars

\* C26: applyManualLTRLayout gives a node of a lower level a strictly smaller x
\* than a node of a higher level, and the smallest x of a level that has nodes
\* is the sum of the widths of the levels before it (8 columns of feeds at
\* most, 3 columns of warehouses and datalakes at most, one column of
\* virtualisation nodes, each column 200 wide, nothing for a level with no
\* node).
C26_LevelsDoNotOverlap ==
    (output # <<>> /\ output.by = "applyManualLTRLayout") =>
        LET nodes == output.nodes
            LevelOf == [feed |-> 0, warehouse |-> 1, datalake |-> 1,
                        virtualisation |-> 2, logical_dw |-> 3]
            placed == {i \in DOMAIN nodes : nodes[i].group \in DOMAIN LevelOf}
            n0 == input.size[1]
            n1 == input.size[2] + input.size[3]
            n2 == input.size[4]
            width == <<200 * (IF n0 < 8 THEN n0 ELSE 8),
                       200 * (IF n1 < 3 THEN n1 ELSE 3),
                       IF n2 > 0 THEN 200 ELSE 0>>
            start == <<0, width[1], width[1] + width[2],
                       width[1] + width[2] + width[3]>>
        IN  /\ \A i \in placed : nodes[i].x # Undefined
            /\ \A i, j \in placed :
                  LevelOf[nodes[i].group] < LevelOf[nodes[j].group]
                     => nodes[i].x[1] < nodes[j].x[1]
            /\ \A i \in placed :
                  /\ nodes[i].x[1] >= start[LevelOf[nodes[i].group] + 1]
                  /\ \E j \in placed :
                        /\ LevelOf[nodes[j].group] = LevelOf[nodes[i].group]
                        /\ nodes[j].x[1] = start[LevelOf[nodes[i].group] + 1]

\* Nine feeds, four warehouses and datalakes, virtualisation and logical_dw
\* nodes have been laid out: every level is wider than its first column.
C26_Witness ==
    /\ output # <<>>
    /\ output.by = "applyManualLTRLayout"
    /\ input.size[1] = 9
    /\ input.size[2] = 2 /\ input.size[3] = 2
    /\ input.size[4] = 2 /\ input.size[5] = 1
    /\ \E i \in DOMAIN output.nodes :
          output.nodes[i].group = "logical_dw" /\ output.nodes[i].x = Def(2400)

\* C27: applyManualLTRLayout places the feed node at index i of the feed bucket
\* in column i mod 8, at x = (i mod 8) * 200, and in row i div 8, so that no two
\* feed nodes share a position: with 9 feeds the node at index 8 is not where
\* the node at index 0 is.
C27_FeedsWrapToRows ==
    (output # <<>> /\ output.by = "applyManualLTRLayout") =>
        LET feeds == SelectSeq(output.nodes, LAMBDA n : n.group = "feed")
        IN  /\ \A i \in DOMAIN feeds : feeds[i].x = Def(((i - 1) % 8) * 200)
            /\ \A i, j \in DOMAIN feeds :
                  i # j => <<feeds[i].x, feeds[i].y>> # <<feeds[j].x, feeds[j].y>>

\* C28: applyManualLTRLayout pins every feed, warehouse and logical_dw node on
\* x alone and every datalake and virtualisation node on both axes, whatever
\* the node list.
C28_PinsByGroup ==
    (output # <<>> /\ output.by = "applyManualLTRLayout") =>
        \A i \in DOMAIN output.nodes :
            LET n == output.nodes[i]
            IN  /\ n.group \in {"feed", "warehouse", "logical_dw"} =>
                      (n.fixed.x /\ ~n.fixed.y)
                /\ n.group \in {"datalake", "virtualisation"} =>
                      (n.fixed.x /\ n.fixed.y)

\* A list with nodes of all five groups, in reverse order, has been laid out.
C28_Witness ==
    /\ output # <<>>
    /\ output.by = "applyManualLTRLayout"
    /\ input.reversed
    /\ \A g \in 1..5 : input.size[g] > 0
    /\ \E i, j \in DOMAIN output.nodes :
          /\ output.nodes[i].group = "warehouse" /\ output.nodes[i].fixed = FixedX
          /\ output.nodes[j].group = "datalake" /\ output.nodes[j].fixed = FixedXY

\* C29: applyRoughPositioning places the node at index i of a bucket of k nodes
\* at the anchor of its group plus (i mod c, i div c) steps of 80, c being the
\* least number whose square is at least k; the anchor of a group that is none
\* of the five known groups is the origin; two nodes of one bucket never get
\* the same position.
C29_RoughGrid ==
    (output # <<>> /\ output.by = "applyRoughPositioning") =>
        \A g \in 1..Len(LayoutGroups) :
            LET bucket == SelectSeq(output.nodes, LAMBDA n : n.group = LayoutGroups[g])
                k == Len(bucket)
                c == CHOOSE d \in 0..k : d * d >= k /\ (d = 0 \/ (d - 1) * (d - 1) < k)
                anchor == CASE g = 1 -> <<0, 0>>
                            [] g = 2 -> <<400, 0>>
                            [] g = 3 -> <<400, 300>>
                            [] g = 4 -> <<800, 150>>
                            [] g = 5 -> <<1200, 150>>
                            [] OTHER -> <<0, 0>>
            IN  /\ k = input.size[g]
                /\ \A i \in 1..k :
                      /\ bucket[i].x = Def(anchor[1] + ((i - 1) % c) * 80)
                      /\ bucket[i].y = Def(anchor[2] + ((i - 1) \div c) * 80)
                /\ \A i, j \in 1..k :
                      i # j => <<bucket[i].x, bucket[i].y>> # <<bucket[j].x, bucket[j].y>>

\* Five feeds on a grid of 3 columns and two nodes of an unknown group at the
\* origin have been positioned.
C29_Witness ==
    /\ output # <<>>
    /\ output.by = "applyRoughPositioning"
    /\ input.size[1] = 5
    /\ input.size[6] = 2
    /\ \E i, j \in DOMAIN output.nodes :
          /\ output.nodes[i].group = "feed"
          /\ output.nodes[i].x = Def(80) /\ output.nodes[i].y = Def(80)
          /\ output.nodes[j].group = "other"
          /\ output.nodes[j].x = Def(80) /\ output.nodes[j].y = Def(0)

\* C30: an instance built for the clustered-force layout on a cache miss was
\* handed physics options with stabilization enabled (for a bounded number of
\* iterations, with a minimum-velocity threshold).
C30_ClusteredForceStabilizes ==
    ( /\ HasNetwork(Cur)
      /\ network.cacheKey[2] = "clusteredForce"
      /\ ~network.fromCache ) =>
          /\ network.options.physics
          /\ network.options.stabilization

\* C31: a node whose group is none of the five recognised groups leaves each
\* pre-positioning function, applyManualLTRLayout included, with an x
\* coordinate assigned.
C31_UnknownGroupIsPositioned ==
    output # <<>> =>
        \A i \in DOMAIN output.nodes :
            output.nodes[i].group \notin DOMAIN groupPositions =>
                output.nodes[i].x # Undefined

\* C32: the list populateAllNodes builds holds exactly one entry for every node
\* id found in snapshot past, current or future and none for any other id, and
\* the entry of an id is the first record with that id of the first snapshot,
\* in the order past, current, future, that holds the id.
C32_OneEntryPerIdFirstWins ==
    output # <<>> =>
        LET keys == <<"past", "current", "future">>
            found(k) == {n.id : n \in Range(input[keys[k]].nodes)}
            entries == output.allNodes
        IN  /\ {e.id : e \in Range(entries)} = found(1) \cup found(2) \cup found(3)
            /\ \A i, j \in DOMAIN entries : entries[i].id = entries[j].id => i = j
            /\ \A i \in DOMAIN entries :
                  LET k == CHOOSE c \in 1..3 :
                               /\ entries[i].id \in found(c)
                               /\ \A b \in 1..(c - 1) : entries[i].id \notin found(b)
                      nodes == input[keys[k]].nodes
                      first == CHOOSE m \in DOMAIN nodes :
                                  /\ nodes[m].id = entries[i].id
                                  /\ \A l \in 1..(m - 1) : nodes[l].id # entries[i].id
                  IN  entries[i] = nodes[first]

\* Node a is in past and in future, node b in future alone, and current has no
\* dataset: the list holds the record of a from past and that of b from future.
C32_Witness ==
    /\ output # <<>>
    /\ ~input.current.present
    /\ {n.id : n \in Range(input.past.nodes)} = {"a"}
    /\ {n.id : n \in Range(input.future.nodes)} = {"a", "b"}
    /\ \E i, j \in DOMAIN output.allNodes :
          /\ output.allNodes[i].id = "a" /\ output.allNodes[i].label[1] = "past"
          /\ output.allNodes[j].id = "b" /\ output.allNodes[j].label[1] = "future"

\* C33: once the showDebug watcher has run, logInterval is set exactly when
\* showDebug is true and names the one active polling interval; at no time
\* are two polling intervals active.
C33_PollingFollowsPanel ==
    /\ Cardinality(debug.intervals) <= 1
    /\ debug.showDebug = debug.seen =>
          /\ debug.logInterval # 0 <=> debug.showDebug
          /\ debug.intervals = IF debug.showDebug THEN {debug.logInterval} ELSE {}

\* The panel has been opened, closed and opened again, and the watcher has run.
C33_Witness ==
    /\ debug.showDebug
    /\ debug.seen
    /\ debug.created >= 2
    /\ debug.toggles >= 3

\* C34: the deferred builds run down.  With no user action only animation
\* frames and deferred builds are left, and an animation frame keeps the
\* number of pending builds; so the builds are finitely many, and end with no
\* build pending, exactly if every deferred build leaves fewer builds pending
\* than it found, whatever search term is stored.
C34_BuildsRunDown ==
    [][DeferredBuild => PendingBuilds' < PendingBuilds]_vars

\* C35: whenever a deferred build is pending (drawGraph has been called and
\* its _drawGraphInternal step has not run yet), the loading flag is true.
C35_PendingBuildShowsLoading ==
    PendingBuilds > 0 => isLoading

\* C36: every node id that searchNodes passes to selectNodes and focus is the
\* id of a node of the live instance: when the user's edit of the search box
\* runs searchNodes on a live instance with a query that is not blank, every
\* match of the query is a node the instance holds.
C36_SearchSelectsRenderedNodes ==
    [][\A query \in Queries :
          ( /\ SetSearchTerm(query)
            /\ viewMode = "graph"
            /\ HasNetwork(Cur)
            /\ HasData(selectedState)
            /\ trim(toLowerCase(query)) # <<>> ) =>
                LET nodesToSelect == matchedNodes(selectedState, trim(toLowerCase(query)))
                IN  \A i \in DOMAIN nodesToSelect :
                        nodesToSelect[i] \in {n.id : n \in Range(network.nodes)}
      ]_vars

\* C37: under the left-to-right strategy the nodes of every build carry the
\* same pins, with the positions taken from applyManualLTRLayout or from the
\* position cache: the nodes of a live instance built under hierarchicalLR
\* are pinned on x if feed or warehouse, and on both axes if datalake or
\* virtualisation.
C37_PinsInEveryBuild ==
    (HasNetwork(Cur) /\ network.cacheKey = CacheKey(network.cacheKey[1], "hierarchicalLR")) =>
        \A i \in DOMAIN network.nodes :
            LET n == network.nodes[i]
            IN  /\ n.group \in {"feed", "warehouse"} => n.fixed.x
                /\ n.group \in {"datalake", "virtualisation"} => (n.fixed.x /\ n.fixed.y)

\* C38: whenever a live instance exists, isPhysicsEnabled equals the
\* physics-enabled option last given to that instance.
C38_FlagMatchesEngine ==
    HasNetwork(Cur) => isPhysicsEnabled = network.physics

\* An instance built with physics on has had physics switched off since, by a
\* timer or by the user.
C38_Witness ==
    /\ HasNetwork(Cur)
    /\ network.options.physics
    /\ ~network.physics
    /\ ~isPhysicsEnabled

\* C39: a manual toggle that switches physics on again cancels every pending
\* auto-disable timer; under the left-to-right strategy it arms one new timer
\* (which then is the only one pending), under the clustered-force strategy it
\* arms none (so none is pending); with no live instance togglePhysics changes
\* nothing.
C39_ReEnableRestartsTheTimer ==
    [][TogglePhysics =>
          /\ ~HasNetwork(Cur) =>
                UNCHANGED <<network, isPhysicsEnabled, stabilizationTimeout, timers>>
          /\ (HasNetwork(Cur) /\ isPhysicsEnabled') =>
                IF selectedLayout = "hierarchicalLR"
                THEN /\ stabilizationTimeout' # 0
                     /\ timers' = {[id |-> stabilizationTimeout', kind |-> "toggle",
                                    stale |-> FALSE]}
                ELSE timers' = {}
      ]_vars

\* C40: in the plain-JS controller a stop-simulation timer armed for one
\* simulation never stops a simulation started by a later snapshot change,
\* layout change or physics re-enable: when a timer armed before the latest of
\* those actions expires, a running simulation keeps running.
C40_StaleTimerStopsNothing ==
    [][(JsStopTimeout /\ js.staleStops > 0 /\ js.running) => js'.running]_vars

====
